---- MODULE Spec2Model ----
(***************************************************************************)
(* Model of Buffer (src/code/buffer/buffer.cpp): a byte vector buffer_     *)
(* with a read cursor readPos_ and a write cursor writePos_.               *)
(*                                                                         *)
(* Offsets are the C++ offsets (0-based); buffer_[i] of the source is      *)
(* buffer[i + 1] here.  A failing assert() stops the program (phase        *)
(* "aborted").  A call whose behaviour the language leaves undefined       *)
(* (a copy, read or system call through a pointer outside the vector)      *)
(* ends in phase "undefined": nothing is claimed of what follows it.       *)
(***************************************************************************)
EXTENDS Integers, Sequences, FiniteSets, TLC

VARIABLES
    buffer_,     \* std::vector<char> buffer_
    readPos_,    \* offset of the first readable byte
    writePos_,   \* offset one past the last readable byte
    phase,       \* "run" | "aborted" | "undefined"
    last,        \* the call that produced this state: its arguments, its results
    net,         \* bytes put into the readable region minus bytes taken out of it
    hist         \* the calls made so far (recorded by the scenario driver only)

vars == <<buffer_, readPos_, writePos_, phase, last, net, hist>>

----------------------------------------------------------------------------
(* Bounds of the model. *)

MaxByte == 1     \* byte values are 0..MaxByte; 0 is the byte bzero and resize write
MaxInit == 1     \* initial capacities are 0..MaxInit
MaxLen == 2      \* Append appends at most MaxLen bytes; len arguments are 0..MaxLen
MaxRead == 2     \* readv delivers at most MaxRead bytes
MaxCap == 3      \* calls that would grow buffer_ beyond MaxCap are not made
MaxHist == 4     \* the scenario driver makes at most MaxHist calls
MaxGrow == 5     \* the growth driver stops growing buffer_ at MaxGrow bytes
MaxPending == 1  \* the steady caller appends only when at most MaxPending bytes are readable

(* sizeof(buff) in ReadFd: the second iovec's length. *)
ScratchSize == 65535

(* size_t arithmetic wraps.  TLC's integers are 32 bit wide, so the modulus *)
(* 2^64 of the build is represented by 2^30: every length of the model is   *)
(* far below either, and a wrapped difference is far above every length.    *)
SizeMod == 2^30

Byte == 0..MaxByte
Errnos == {4, 11}     \* EINTR, EAGAIN
ErrIn == {0}          \* what the caller's int holds when it calls ReadFd / WriteFd

SeqsUpTo(S, n) == UNION {[1..k -> S] : k \in 0..n}

Zeros(n) == [i \in 1..n |-> 0]

Min(a, b) == IF a <= b THEN a ELSE b

Max(a, b) == IF a >= b THEN a ELSE b

----------------------------------------------------------------------------
(* The buffer as a value: b = [buffer, readPos, writePos]. *)

Cur == [buffer |-> buffer_, readPos |-> readPos_, writePos |-> writePos_]

ReadableBytes(b) == (b.writePos - b.readPos) % SizeMod

WritableBytes(b) == (Len(b.buffer) - b.writePos) % SizeMod

PrependableBytes(b) == b.readPos

(* The cursors lie inside the vector, in order. *)
InBounds(b) == b.readPos <= b.writePos /\ b.writePos <= Len(b.buffer)

(* The bytes Peek() designates: buffer_[readPos_ .. writePos_). *)
Peek(b) == SubSeq(b.buffer, b.readPos + 1, b.writePos)

(* std::copy(src + first, src + first + Len(data) ...) seen from its target: *)
(* the bytes of data stored at offsets at .. at + Len(data) - 1.             *)
StdCopyIn(buf, data, at) ==
    [i \in 1..Len(buf) |->
        IF i > at /\ i <= at + Len(data) THEN data[i - at] ELSE buf[i]]

(* std::copy(begin + first, begin + last, begin + dest) inside one vector:   *)
(* a forward element by element copy, each element read when it is its turn. *)
RECURSIVE StdCopy(_, _, _, _)
StdCopy(buf, first, lastOff, dest) ==
    IF first >= lastOff THEN buf
    ELSE StdCopy([buf EXCEPT ![dest + 1] = buf[first + 1]], first + 1, lastOff, dest + 1)

(* std::vector<char>::resize(n): new elements are value-initialised (0). *)
Resize(buf, n) ==
    IF n <= Len(buf) THEN SubSeq(buf, 1, n) ELSE buf \o Zeros(n - Len(buf))

----------------------------------------------------------------------------
(* The member functions, as functions of the buffer value.  Those that can  *)
(* fail an assert or leave defined behaviour return an outcome              *)
(* [b, phase, path]: the buffer at the end of the call, how the call ended, *)
(* and which branch of MakeSpace_ ran ("none" when it was not called).      *)

Ran(b, path) == [b |-> b, phase |-> "run", path |-> path]

(* Retrieve that clamps a len beyond the readable region instead of         *)
(* asserting.                                                               *)
RetrieveClamps(b, len) ==
    IF ~(len <= ReadableBytes(b))
    THEN Ran([b EXCEPT !.readPos = b.writePos], "none")
    ELSE Ran([b EXCEPT !.readPos = (b.readPos + len) % SizeMod], "none")

Retrieve(b, len) ==
    IF ~(len <= ReadableBytes(b))
    THEN [b |-> b, phase |-> "aborted", path |-> "none"]
    ELSE Ran([b EXCEPT !.readPos = (b.readPos + len) % SizeMod], "none")

(* RetrieveUntil that also retrieves the byte end points at. *)
RetrieveUntilInclusive(b, endOff) ==
    IF ~(b.readPos <= endOff)
    THEN [b |-> b, phase |-> "aborted", path |-> "none"]
    ELSE Retrieve(b, endOff - b.readPos + 1)

(* end is the pointer BeginPtr_() + endOff. *)
RetrieveUntil(b, endOff) ==
    IF ~(b.readPos <= endOff)
    THEN [b |-> b, phase |-> "aborted", path |-> "none"]
    ELSE Retrieve(b, endOff - b.readPos)

(* RetrieveAll without the bzero. *)
RetrieveAllNoZero(b) == [buffer |-> b.buffer, readPos |-> 0, writePos |-> 0]

RetrieveAll(b) ==
    [buffer |-> Zeros(Len(b.buffer)), readPos |-> 0, writePos |-> 0]

HasWritten(b, len) == [b EXCEPT !.writePos = (b.writePos + len) % SizeMod]

(* MakeSpace_ whose compaction leaves writePos_ where it was. *)
MakeSpace_KeepsWritePos(b, len) ==
    IF (WritableBytes(b) + PrependableBytes(b)) % SizeMod < len
    THEN Ran([b EXCEPT !.buffer = Resize(b.buffer, b.writePos + len + 1)], "grow")
    ELSE LET readable == ReadableBytes(b)
             moved == [buffer   |-> StdCopy(b.buffer, b.readPos, b.writePos, 0),
                       readPos  |-> 0,
                       writePos |-> b.writePos]
         IN  [b     |-> moved,
              phase |-> IF readable = ReadableBytes(moved) THEN "run" ELSE "aborted",
              path  |-> "compact"]

(* MakeSpace_ whose compaction copies one byte too few. *)
MakeSpace_DropsLast(b, len) ==
    IF (WritableBytes(b) + PrependableBytes(b)) % SizeMod < len
    THEN Ran([b EXCEPT !.buffer = Resize(b.buffer, b.writePos + len + 1)], "grow")
    ELSE LET readable == ReadableBytes(b)
             moved == [buffer   |-> StdCopy(b.buffer, b.readPos, b.writePos - 1, 0),
                       readPos  |-> 0,
                       writePos |-> 0 + readable]
         IN  [b     |-> moved,
              phase |-> IF readable = ReadableBytes(moved) THEN "run" ELSE "aborted",
              path  |-> "compact"]

(* MakeSpace_ whose growth resizes to len + 1, writePos_ forgotten. *)
MakeSpace_ResizeLen(b, len) ==
    IF (WritableBytes(b) + PrependableBytes(b)) % SizeMod < len
    THEN Ran([b EXCEPT !.buffer = Resize(b.buffer, len + 1)], "grow")
    ELSE LET readable == ReadableBytes(b)
             moved == [buffer   |-> StdCopy(b.buffer, b.readPos, b.writePos, 0),
                       readPos  |-> 0,
                       writePos |-> 0 + readable]
         IN  [b     |-> moved,
              phase |-> IF readable = ReadableBytes(moved) THEN "run" ELSE "aborted",
              path  |-> "compact"]

(* MakeSpace_ whose growth also moves the readable bytes to the front. *)
MakeSpace_GrowReclaims(b, len) ==
    LET readable == ReadableBytes(b)
        moved == [buffer   |-> StdCopy(b.buffer, b.readPos, b.writePos, 0),
                  readPos  |-> 0,
                  writePos |-> 0 + readable]
    IN  IF (WritableBytes(b) + PrependableBytes(b)) % SizeMod < len
        THEN Ran([moved EXCEPT !.buffer = Resize(moved.buffer, b.writePos + len + 1)], "grow")
        ELSE [b     |-> moved,
              phase |-> IF readable = ReadableBytes(moved) THEN "run" ELSE "aborted",
              path  |-> "compact"]

(* MakeSpace_ that always grows, whatever the prependable space. *)
MakeSpace_AlwaysGrows(b, len) ==
    Ran([b EXCEPT !.buffer = Resize(b.buffer, b.writePos + len + 1)], "grow")

MakeSpace_(b, len) ==
    IF (WritableBytes(b) + PrependableBytes(b)) % SizeMod < len
    THEN Ran([b EXCEPT !.buffer = Resize(b.buffer, b.writePos + len + 1)], "grow")
    ELSE LET readable == ReadableBytes(b)
             moved == [buffer   |-> StdCopy(b.buffer, b.readPos, b.writePos, 0),
                       readPos  |-> 0,
                       writePos |-> 0 + readable]
         IN  [b     |-> moved,
              phase |-> IF readable = ReadableBytes(moved) THEN "run" ELSE "aborted",
              path  |-> "compact"]

(* EnsureWriteable that calls MakeSpace_ whatever WritableBytes() is. *)
EnsureWriteableAlways(b, len) ==
    LET out == MakeSpace_(b, len)
    IN  IF out.phase = "run" /\ ~(WritableBytes(out.b) >= len)
        THEN [out EXCEPT !.phase = "aborted"]
        ELSE out

(* EnsureWriteable that makes space only when no byte at all is writable. *)
EnsureWriteableWhenFull(b, len) ==
    LET out == IF WritableBytes(b) = 0 THEN MakeSpace_(b, len) ELSE Ran(b, "none")
    IN  IF out.phase = "run" /\ ~(WritableBytes(out.b) >= len)
        THEN [out EXCEPT !.phase = "aborted"]
        ELSE out

EnsureWriteable(b, len) ==
    LET out == IF WritableBytes(b) < len THEN MakeSpace_(b, len) ELSE Ran(b, "none")
    IN  IF out.phase = "run" /\ ~(WritableBytes(out.b) >= len)
        THEN [out EXCEPT !.phase = "aborted"]
        ELSE out

(* Append(const char* str, size_t len) with the len bytes at str being X,   *)
(* outside buffer_.  The copy is defined only inside the vector.            *)
AppendStr(b, X) ==
    LET len == Len(X)
        out == EnsureWriteable(b, len)
    IN  IF out.phase # "run" THEN out
        ELSE IF out.b.writePos + len > Len(out.b.buffer)
        THEN [out EXCEPT !.phase = "undefined"]
        ELSE [out EXCEPT !.b = HasWritten(
                 [out.b EXCEPT !.buffer = StdCopyIn(out.b.buffer, X, out.b.writePos)], len)]

(* Append(const Buffer& buff) with buff the buffer itself: str is Peek(),    *)
(* the address of offset readPos_ at the call, and len is ReadableBytes().  *)
(* The set of outcomes: str keeps designating that offset through a         *)
(* compaction; after a growth the vector may have been reallocated, leaving *)
(* str dangling; std::copy with its target inside its source range is       *)
(* either a forward copy or a memmove.                                      *)
AppendSelf(b) ==
    LET str == b.readPos
        len == ReadableBytes(b)
        out == EnsureWriteable(b, len)
        at == out.b.writePos
        forward == StdCopy(out.b.buffer, str, str + len, at)
        moved == StdCopyIn(out.b.buffer, SubSeq(out.b.buffer, str + 1, str + len), at)
        done(buf) == [out EXCEPT !.b = HasWritten([out.b EXCEPT !.buffer = buf], len)]
    IN  IF out.phase # "run" THEN {out}
        ELSE IF out.path = "grow"
        THEN {done(moved), [out EXCEPT !.phase = "undefined"]}
        ELSE {done(forward), done(moved)}

(* RetrieveAllToStr: the string it returns and the buffer it leaves. *)
RetrieveAllToStr(b) == [str |-> Peek(b), b |-> RetrieveAll(b)]

(* ReadFd that leaves writePos_ where it was before appending the overflow. *)
ReadFdNoAdvance(b, r, errIn) ==
    LET writable == WritableBytes(b)
        len == r.len
        filled == StdCopyIn(b.buffer, SubSeq(r.data, 1, Min(len, writable)), b.writePos)
        buff == SubSeq(r.data, writable + 1, len)
    IN  IF len < 0
        THEN [out |-> Ran(b, "none"), err |-> r.errno, ret |-> len, calls |-> 1]
        ELSE IF len <= writable
        THEN [out |-> Ran([b EXCEPT !.buffer = filled,
                                    !.writePos = (b.writePos + len) % SizeMod], "none"),
              err |-> errIn, ret |-> len, calls |-> 1]
        ELSE [out |-> AppendStr([b EXCEPT !.buffer = filled], buff),
              err |-> errIn, ret |-> len, calls |-> 1]

(* ReadFd that sets writePos_ to buffer_.size() in both branches of a       *)
(* successful read.                                                         *)
ReadFdFillsToEnd(b, r, errIn) ==
    LET writable == WritableBytes(b)
        len == r.len
        filled == StdCopyIn(b.buffer, SubSeq(r.data, 1, Min(len, writable)), b.writePos)
        buff == SubSeq(r.data, writable + 1, len)
    IN  IF len < 0
        THEN [out |-> Ran(b, "none"), err |-> r.errno, ret |-> len, calls |-> 1]
        ELSE IF len <= writable
        THEN [out |-> Ran([b EXCEPT !.buffer = filled, !.writePos = Len(b.buffer)], "none"),
              err |-> errIn, ret |-> len, calls |-> 1]
        ELSE [out |-> AppendStr([b EXCEPT !.buffer = filled, !.writePos = Len(b.buffer)],
                                buff),
              err |-> errIn, ret |-> len, calls |-> 1]

(* ReadFd, readv having returned r: r.len < 0 with errno r.errno, or        *)
(* r.len >= 0 with the bytes r.data delivered, the first WritableBytes()    *)
(* of them through iov[0] and the rest into buff.  errIn is what            *)
(* *saveErrno holds at the call.  The result: the outcome, *saveErrno at    *)
(* the end, the value returned, and the number of system calls made (the    *)
(* one readv of line 119: the function has no loop).                        *)
ReadFd(b, r, errIn) ==
    LET writable == WritableBytes(b)
        len == r.len
        filled == StdCopyIn(b.buffer, SubSeq(r.data, 1, Min(len, writable)), b.writePos)
        buff == SubSeq(r.data, writable + 1, len)
    IN  IF len < 0
        THEN [out |-> Ran(b, "none"), err |-> r.errno, ret |-> len, calls |-> 1]
        ELSE IF len <= writable
        THEN [out |-> Ran([b EXCEPT !.buffer = filled,
                                    !.writePos = (b.writePos + len) % SizeMod], "none"),
              err |-> errIn, ret |-> len, calls |-> 1]
        ELSE [out |-> AppendStr([b EXCEPT !.buffer = filled, !.writePos = Len(b.buffer)],
                                buff),
              err |-> errIn, ret |-> len, calls |-> 1]

(* WriteFd without the return in its failure branch. *)
WriteFdAdvancesOnError(b, r, errIn) ==
    [out |-> Ran([b EXCEPT !.readPos = (b.readPos + r.len) % SizeMod], "none"),
     err |-> IF r.len < 0 THEN r.errno ELSE errIn, ret |-> r.len, calls |-> 1]

(* WriteFd that advances by readSize, not by what write accepted. *)
WriteFdAssumesFull(b, r, errIn) ==
    IF r.len < 0
    THEN [out |-> Ran(b, "none"), err |-> r.errno, ret |-> r.len, calls |-> 1]
    ELSE [out |-> Ran([b EXCEPT !.readPos = (b.readPos + ReadableBytes(b)) % SizeMod],
                      "none"),
          err |-> errIn, ret |-> r.len, calls |-> 1]

(* WriteFd that calls write again for what a partial write left, the second *)
(* call accepting the rest.                                                 *)
WriteFdRetries(b, r, errIn) ==
    IF r.len < 0
    THEN [out |-> Ran(b, "none"), err |-> r.errno, ret |-> r.len, calls |-> 1]
    ELSE IF r.len < ReadableBytes(b)
    THEN [out |-> Ran([b EXCEPT !.readPos = b.writePos], "none"),
          err |-> errIn, ret |-> ReadableBytes(b), calls |-> 2]
    ELSE [out |-> Ran([b EXCEPT !.readPos = (b.readPos + r.len) % SizeMod], "none"),
          err |-> errIn, ret |-> r.len, calls |-> 1]

(* WriteFd that advances readPos_ only when write accepted every readable   *)
(* byte, leaving a partial write to be sent again.                          *)
WriteFdResends(b, r, errIn) ==
    IF r.len < 0
    THEN [out |-> Ran(b, "none"), err |-> r.errno, ret |-> r.len, calls |-> 1]
    ELSE IF r.len < ReadableBytes(b)
    THEN [out |-> Ran(b, "none"), err |-> errIn, ret |-> r.len, calls |-> 1]
    ELSE [out |-> Ran([b EXCEPT !.readPos = (b.readPos + r.len) % SizeMod], "none"),
          err |-> errIn, ret |-> r.len, calls |-> 1]

(* WriteFd, write having returned r: r.len < 0 with errno r.errno, or the   *)
(* number r.len of bytes accepted.                                          *)
WriteFd(b, r, errIn) ==
    IF r.len < 0
    THEN [out |-> Ran(b, "none"), err |-> r.errno, ret |-> r.len, calls |-> 1]
    ELSE [out |-> Ran([b EXCEPT !.readPos = (b.readPos + r.len) % SizeMod], "none"),
          err |-> errIn, ret |-> r.len, calls |-> 1]

(* What readv(fd, iov, 2) can return: a failure, or at most                 *)
(* iov[0].iov_len + iov[1].iov_len bytes.                                   *)
ReadvResults(b) ==
    {[len |-> -1, errno |-> e, data |-> <<>>] : e \in Errnos}
    \cup {[len |-> Len(d), errno |-> 0, data |-> d] :
             d \in {x \in SeqsUpTo(Byte, MaxRead) : Len(x) <= WritableBytes(b) + ScratchSize}}

(* What write(fd, Peek(), readSize) can return: a failure, or the number of *)
(* bytes accepted, 0..readSize (data: the bytes accepted).                  *)
WriteResults(b) ==
    {[len |-> -1, errno |-> e, data |-> <<>>] : e \in Errnos}
    \cup {[len |-> n, errno |-> 0, data |-> SubSeq(Peek(b), 1, n)] :
             n \in 0..ReadableBytes(b)}

----------------------------------------------------------------------------
(* The state machine: one action per public member function. *)

(* last: op, the member function called; len and data, its arguments (for  *)
(* ReadFd and WriteFd what the system call transferred); ret, the ssize_t   *)
(* returned; str, the string returned; errno, the errno of a failed system  *)
(* call; errIn and err, *saveErrno before and after the call; calls, the    *)
(* number of system calls the call made; path, the                          *)
(* branch of MakeSpace_ that ran; readable and writable, ReadableBytes()    *)
(* and WritableBytes() when the call was made; prior, for RetrieveAllToStr, *)
(* what FreshAppend was when the call was made.                             *)
NoCall == [op |-> "Buffer", len |-> 0, data |-> <<>>, ret |-> 0, str |-> <<>>,
           errno |-> 0, errIn |-> 0, err |-> 0, calls |-> 0, path |-> "none",
           readable |-> 0, writable |-> 0, prior |-> <<>>]

(* <<X>> when the call that produced this state was an Append of X onto an  *)
(* empty readable region, and <<>> otherwise.                               *)
FreshAppend ==
    IF last.op = "Append" /\ phase = "run" /\ last.readable = 0
    THEN <<last.data>> ELSE <<>>

Init ==
    /\ \E initBuffSize \in 0..MaxInit : buffer_ = Zeros(initBuffSize)
    /\ readPos_ = 0
    /\ writePos_ = 0
    /\ phase = "run"
    /\ last = NoCall
    /\ net = 0
    /\ hist = <<>>

(* The model stops growing buffer_ at MaxCap bytes (or at its initial size, *)
(* when that is larger); Finish also stops writePos_ one past the end of    *)
(* buffer_, the first offset no cursor may take.                            *)
CapLimit == IF Len(buffer_) > MaxCap THEN Len(buffer_) ELSE MaxCap

(* The call op(len / data) ends with outcome out, returning ret or str,     *)
(* with *saveErrno going from errIn to err; delta is the number of bytes    *)
(* the call adds to the readable region.                                    *)
FinishUpTo(cap, op, len, data, out, ret, str, io, delta) ==
    /\ phase = "run"
    /\ Len(out.b.buffer) <= cap
    /\ out.b.writePos <= Len(out.b.buffer) + 1
    /\ buffer_' = out.b.buffer
    /\ readPos_' = out.b.readPos
    /\ writePos_' = out.b.writePos
    /\ phase' = out.phase
    /\ last' = [op |-> op, len |-> len, data |-> data, ret |-> ret, str |-> str,
                errno |-> io.errno, errIn |-> io.errIn, err |-> io.err,
                calls |-> io.calls,
                path |-> out.path,
                readable |-> ReadableBytes(Cur), writable |-> WritableBytes(Cur),
                prior |-> IF op = "RetrieveAllToStr" THEN FreshAppend ELSE <<>>]
    /\ net' = IF out.phase = "run" THEN net + delta ELSE net

Finish(op, len, data, out, ret, str, io, delta) ==
    FinishUpTo(CapLimit, op, len, data, out, ret, str, io, delta)

NoIo == [errno |-> 0, errIn |-> 0, err |-> 0, calls |-> 0]

Undefined(b) == [b |-> b, phase |-> "undefined", path |-> "none"]

DoRetrieve(len) ==
    Finish("Retrieve", len, <<>>, Retrieve(Cur, len), 0, <<>>, NoIo, 0 - len)

DoRetrieveUntil(endOff) ==
    Finish("RetrieveUntil", endOff, <<>>, RetrieveUntil(Cur, endOff), 0, <<>>, NoIo,
           readPos_ - endOff)

(* &buffer_[0] on an empty vector is outside the vector: the library may    *)
(* check it (and stop) or not (and bzero of 0 bytes does nothing).          *)
DoRetrieveAll ==
    \/ Finish("RetrieveAll", 0, <<>>, Ran(RetrieveAll(Cur), "none"), 0, <<>>, NoIo,
              0 - ReadableBytes(Cur))
    \/ /\ Len(buffer_) = 0
       /\ Finish("RetrieveAll", 0, <<>>, Undefined(Cur), 0, <<>>, NoIo, 0)

(* std::string str(Peek(), ReadableBytes()) reads the readable region; it   *)
(* lies inside the vector only when the cursors do.                         *)
DoRetrieveAllToStr ==
    \/ /\ InBounds(Cur)
       /\ Finish("RetrieveAllToStr", 0, <<>>, Ran(RetrieveAllToStr(Cur).b, "none"), 0,
                 RetrieveAllToStr(Cur).str, NoIo, 0 - ReadableBytes(Cur))
    \/ /\ ~InBounds(Cur) \/ Len(buffer_) = 0
       /\ Finish("RetrieveAllToStr", 0, <<>>, Undefined(Cur), 0, <<>>, NoIo, 0)

DoHasWritten(len) ==
    Finish("HasWritten", len, <<>>, Ran(HasWritten(Cur, len), "none"), 0, <<>>, NoIo, len)

DoAppend(X) ==
    Finish("Append", Len(X), X, AppendStr(Cur, X), 0, <<>>, NoIo, Len(X))

DoEnsureWriteable(len) ==
    Finish("EnsureWriteable", len, <<>>, EnsureWriteable(Cur, len), 0, <<>>, NoIo, 0)

(* With writePos_ past the end of the vector, iov[0] designates memory      *)
(* outside it.                                                              *)
DoReadFd ==
    \/ /\ InBounds(Cur)
       /\ \E errIn \in ErrIn, r \in ReadvResults(Cur) :
             LET res == ReadFd(Cur, r, errIn)
             IN  Finish("ReadFd", IF r.len < 0 THEN 0 ELSE r.len, r.data, res.out, res.ret,
                        <<>>, [errno |-> r.errno, errIn |-> errIn, err |-> res.err, calls |-> res.calls],
                        IF r.len < 0 THEN 0 ELSE r.len)
    \/ /\ ~InBounds(Cur)
       /\ Finish("ReadFd", 0, <<>>, Undefined(Cur), 0, <<>>, NoIo, 0)

(* With writePos_ past the end of the vector, write reads memory outside    *)
(* it.                                                                      *)
DoWriteFd ==
    \/ /\ InBounds(Cur)
       /\ \E errIn \in ErrIn, r \in WriteResults(Cur) :
             LET res == WriteFd(Cur, r, errIn)
             IN  Finish("WriteFd", IF r.len < 0 THEN 0 ELSE r.len, r.data, res.out, res.ret,
                        <<>>, [errno |-> r.errno, errIn |-> errIn, err |-> res.err, calls |-> res.calls],
                        IF r.len < 0 THEN 0 ELSE 0 - r.len)
    \/ /\ ~InBounds(Cur)
       /\ Finish("WriteFd", 0, <<>>, Undefined(Cur), 0, <<>>, NoIo, 0)

CallRetrieve == \E len \in 0..MaxLen : DoRetrieve(len) /\ UNCHANGED hist
CallRetrieveUntil == \E endOff \in 0..Len(buffer_) : DoRetrieveUntil(endOff) /\ UNCHANGED hist
CallRetrieveAll == DoRetrieveAll /\ UNCHANGED hist
CallRetrieveAllToStr == DoRetrieveAllToStr /\ UNCHANGED hist
CallHasWritten == \E len \in 0..MaxLen : DoHasWritten(len) /\ UNCHANGED hist
CallAppend == \E X \in SeqsUpTo(Byte, MaxLen) : DoAppend(X) /\ UNCHANGED hist
CallEnsureWriteable == \E len \in 0..MaxLen : DoEnsureWriteable(len) /\ UNCHANGED hist
CallReadFd == DoReadFd /\ UNCHANGED hist
CallWriteFd == DoWriteFd /\ UNCHANGED hist

Next ==
    \/ CallRetrieve
    \/ CallRetrieveUntil
    \/ CallRetrieveAll
    \/ CallRetrieveAllToStr
    \/ CallHasWritten
    \/ CallAppend
    \/ CallEnsureWriteable
    \/ CallReadFd
    \/ CallWriteFd

Spec == Init /\ [][Next]_vars

----------------------------------------------------------------------------
(* Callers that only append and retrieve, every Retrieve within the         *)
(* readable region.                                                         *)

CallRetrieveWithin ==
    \E len \in 0..MaxLen : len <= ReadableBytes(Cur) /\ DoRetrieve(len) /\ UNCHANGED hist

NextAR == CallAppend \/ CallRetrieveWithin

SpecAR == Init /\ [][NextAR]_vars

----------------------------------------------------------------------------
(* A test driver on a buffer of capacity 10 that appends "hello", "ab" or   *)
(* "world!" and retrieves, recording its calls in hist.                     *)

hello == <<104, 101, 108, 108, 111>>
ab == <<97, 98>>
world == <<119, 111, 114, 108, 100, 33>>
lloab == <<108, 108, 111, 97, 98>>

Called(op, len, data) == [op |-> op, len |-> len, data |-> data]

ScenarioInit ==
    /\ buffer_ = Zeros(10)
    /\ readPos_ = 0
    /\ writePos_ = 0
    /\ phase = "run"
    /\ last = NoCall
    /\ net = 0
    /\ hist = <<>>

ScenarioAppend ==
    \E X \in {hello, ab, world} :
        /\ Len(hist) < MaxHist
        /\ DoAppend(X)
        /\ hist' = hist \o <<Called("Append", Len(X), X)>>

ScenarioRetrieve ==
    \E len \in 0..MaxLen :
        /\ Len(hist) < MaxHist
        /\ DoRetrieve(len)
        /\ hist' = hist \o <<Called("Retrieve", len, <<>>)>>

ScenarioNext == ScenarioAppend \/ ScenarioRetrieve

SpecScenario == ScenarioInit /\ [][ScenarioNext]_vars

----------------------------------------------------------------------------
(* A caller that appends, consumes and reserves room, every Retrieve within *)
(* the readable region, on a buffer that may grow to MaxGrow bytes.  What   *)
(* it appends has no 0 byte, the byte resize and bzero write.               *)

GrowAppend ==
    \E X \in SeqsUpTo(Byte \ {0}, MaxLen) :
        /\ FinishUpTo(MaxGrow, "Append", Len(X), X, AppendStr(Cur, X), 0, <<>>, NoIo, Len(X))
        /\ UNCHANGED hist

GrowRetrieve ==
    \E len \in 1..MaxLen :
        /\ len <= ReadableBytes(Cur)
        /\ FinishUpTo(MaxGrow, "Retrieve", len, <<>>, Retrieve(Cur, len), 0, <<>>, NoIo,
                      0 - len)
        /\ UNCHANGED hist

GrowRetrieveAll ==
    /\ Len(buffer_) > 0
    /\ FinishUpTo(MaxGrow, "RetrieveAll", 0, <<>>, Ran(RetrieveAll(Cur), "none"), 0, <<>>,
                  NoIo, 0 - ReadableBytes(Cur))
    /\ UNCHANGED hist

GrowEnsureWriteable ==
    \E len \in 1..MaxLen :
        /\ FinishUpTo(MaxGrow, "EnsureWriteable", len, <<>>, EnsureWriteable(Cur, len), 0,
                      <<>>, NoIo, 0)
        /\ UNCHANGED hist

GrowNext == GrowAppend \/ GrowRetrieve \/ GrowRetrieveAll \/ GrowEnsureWriteable

SpecGrow == Init /\ [][GrowNext]_vars

----------------------------------------------------------------------------
(* A caller that appends, consumes, and appends the buffer to itself, on a  *)
(* buffer that may grow to MaxGrow bytes.                                   *)

SelfFill ==
    \E X \in SeqsUpTo(Byte, MaxLen) :
        /\ Len(X) > 0
        /\ FinishUpTo(MaxGrow, "Append", Len(X), X, AppendStr(Cur, X), 0, <<>>, NoIo, Len(X))
        /\ UNCHANGED hist

SelfAppend ==
    \E out \in AppendSelf(Cur) :
        /\ InBounds(Cur)
        /\ FinishUpTo(MaxGrow, "AppendSelf", ReadableBytes(Cur), Peek(Cur), out, 0, <<>>,
                      NoIo, ReadableBytes(Cur))
        /\ UNCHANGED hist

SelfNext == SelfFill \/ GrowRetrieve \/ SelfAppend

SpecSelf == Init /\ [][SelfNext]_vars

----------------------------------------------------------------------------
(* A steady caller: it appends at most MaxLen bytes at a time, and only     *)
(* when at most MaxPending bytes are readable; it consumes with Retrieve    *)
(* and RetrieveAll.  Its buffer is constructed with any capacity up to      *)
(* SteadyLimit, one more than MaxPending + 2 * MaxLen.                      *)

SteadyLimit == MaxPending + 2 * MaxLen + 1

SteadyInit ==
    /\ \E initBuffSize \in 0..SteadyLimit : buffer_ = Zeros(initBuffSize)
    /\ readPos_ = 0
    /\ writePos_ = 0
    /\ phase = "run"
    /\ last = NoCall
    /\ net = 0
    /\ hist = <<>>

SteadyAppend ==
    \E X \in SeqsUpTo(Byte \ {0}, MaxLen) :
        /\ ReadableBytes(Cur) <= MaxPending
        /\ FinishUpTo(SteadyLimit, "Append", Len(X), X, AppendStr(Cur, X), 0, <<>>, NoIo,
                      Len(X))
        /\ UNCHANGED hist

SteadyRetrieve ==
    \E len \in 1..MaxLen :
        /\ len <= ReadableBytes(Cur)
        /\ FinishUpTo(SteadyLimit, "Retrieve", len, <<>>, Retrieve(Cur, len), 0, <<>>, NoIo,
                      0 - len)
        /\ UNCHANGED hist

SteadyRetrieveAll ==
    /\ Len(buffer_) > 0
    /\ FinishUpTo(SteadyLimit, "RetrieveAll", 0, <<>>, Ran(RetrieveAll(Cur), "none"), 0,
                  <<>>, NoIo, 0 - ReadableBytes(Cur))
    /\ UNCHANGED hist

SteadyNext == SteadyAppend \/ SteadyRetrieve \/ SteadyRetrieveAll

SpecSteady == SteadyInit /\ [][SteadyNext]_vars

----------------------------------------------------------------------------
(* A sender: it appends what it has to send, then calls WriteFd again and   *)
(* again while bytes are readable, appending nothing more; every write      *)
(* accepts at least one byte.  hist records its calls, a WriteFd with the   *)
(* bytes write accepted.                                                    *)

DrainFill ==
    \E X \in SeqsUpTo(Byte, MaxLen) :
        /\ Len(X) > 0
        /\ Len(hist) < MaxHist
        /\ \A i \in 1..Len(hist) : hist[i].op = "Append"
        /\ DoAppend(X)
        /\ hist' = hist \o <<Called("Append", Len(X), X)>>

DrainWrite ==
    /\ InBounds(Cur)
    /\ ReadableBytes(Cur) > 0
    /\ \E errIn \in ErrIn, r \in WriteResults(Cur) :
          /\ r.len >= 1
          /\ LET res == WriteFd(Cur, r, errIn)
             IN  Finish("WriteFd", r.len, r.data, res.out, res.ret, <<>>,
                        [errno |-> r.errno, errIn |-> errIn, err |-> res.err,
                         calls |-> res.calls],
                        0 - r.len)
          /\ hist' = hist \o <<Called("WriteFd", r.len, r.data)>>

DrainNext == DrainFill \/ DrainWrite

(* The sender keeps calling WriteFd while bytes are readable. *)
SpecDrain == Init /\ [][DrainNext]_vars /\ WF_vars(DrainWrite)

(* The bytes of the calls op in h, in the order of the calls. *)
RECURSIVE BytesOf(_, _)
BytesOf(h, op) ==
    IF h = <<>> THEN <<>>
    ELSE (IF Head(h).op = op THEN Head(h).data ELSE <<>>) \o BytesOf(Tail(h), op)

----------------------------------------------------------------------------
(* The properties. *)

(* C1: after every public operation, in every sequence of calls, the        *)
(* cursors satisfy 0 <= readPos_ <= writePos_ <= buffer_.size().            *)
C1_CursorsInOrder ==
    0 <= readPos_ /\ readPos_ <= writePos_ /\ writePos_ <= Len(buffer_)

(* C2: in every sequence of Append and Retrieve calls, each Retrieve within *)
(* the readable region, ReadableBytes() + PrependableBytes() +              *)
(* WritableBytes() == buffer_.size() after every call, and ReadableBytes()  *)
(* is the sum of the appended lengths minus the sum of the retrieved ones.  *)
C2_RegionsAndNet ==
    /\ ReadableBytes(Cur) + PrependableBytes(Cur) + WritableBytes(Cur) = Len(buffer_)
    /\ ReadableBytes(Cur) = net

(* A compaction has run on a buffer that had grown before, and kept bytes. *)
C2_Witness ==
    /\ last.op = "Append" /\ last.path = "compact" /\ phase = "run"
    /\ Len(buffer_) > MaxInit
    /\ net > last.len

(* The scenario's three calls. *)
ScenarioCalls ==
    <<Called("Append", 5, hello), Called("Retrieve", 2, <<>>), Called("Append", 2, ab)>>

(* C3 as stated: capacity 10; Append("hello") gives readable 5, writable 5; *)
(* Retrieve(2) gives readable 3, prependable 2; Append("ab") triggers       *)
(* compaction, after which readPos_ == 0 and the content is "lloab".        *)
C3_ScenarioCompacts ==
    /\ hist = SubSeq(ScenarioCalls, 1, 1)
          => ReadableBytes(Cur) = 5 /\ WritableBytes(Cur) = 5
    /\ hist = SubSeq(ScenarioCalls, 1, 2)
          => ReadableBytes(Cur) = 3 /\ PrependableBytes(Cur) = 2
    /\ hist = ScenarioCalls
          => last.path = "compact" /\ readPos_ = 0 /\ Peek(Cur) = lloab

(* C3 amended: the same, but Append("ab") finds 5 writable bytes, does not  *)
(* compact, and leaves readPos_ == 2, writePos_ == 7, content "lloab".      *)
C3_ScenarioAppendsInPlace ==
    /\ hist = SubSeq(ScenarioCalls, 1, 1)
          => ReadableBytes(Cur) = 5 /\ WritableBytes(Cur) = 5
    /\ hist = SubSeq(ScenarioCalls, 1, 2)
          => ReadableBytes(Cur) = 3 /\ PrependableBytes(Cur) = 2
    /\ hist = ScenarioCalls
          => /\ phase = "run"
             /\ last.path = "none"
             /\ readPos_ = 2
             /\ writePos_ = 7
             /\ Len(buffer_) = 10
             /\ Peek(Cur) = lloab

C3_Witness == hist = ScenarioCalls /\ phase = "run" /\ last.op = "Append"

(* C4: an Append of X with readPos_ = k > 0, readable content C and         *)
(* WritableBytes() < |X| <= WritableBytes() + PrependableBytes() ends with  *)
(* readPos_ == 0, writePos_ == |C| + |X|, buffer_.size() unchanged and the  *)
(* readable content C followed by X.                                        *)
C4_CompactionCorrect ==
    [][(/\ last'.op = "Append"
        /\ readPos_ > 0
        /\ WritableBytes(Cur) < last'.len
        /\ last'.len <= WritableBytes(Cur) + PrependableBytes(Cur))
       => (/\ phase' = "run"
           /\ readPos_' = 0
           /\ writePos_' = Len(Peek(Cur)) + last'.len
           /\ Len(buffer_') = Len(buffer_)
           /\ Peek(Cur') = Peek(Cur) \o last'.data)]_vars

(* An Append has compacted, over content that was not empty. *)
C4_Witness ==
    /\ last.op = "Append" /\ last.path = "compact" /\ phase = "run"
    /\ last.readable > 0
    /\ last.len > last.writable

(* C5 as stated: appending L > WritableBytes() + PrependableBytes() bytes   *)
(* results in WritableBytes() >= L after the call and keeps the prior       *)
(* readable content as the prefix of the readable region.                   *)
C5_GrowthLeavesRoom ==
    [][(/\ last'.op = "Append"
        /\ InBounds(Cur)
        /\ last'.len > WritableBytes(Cur) + PrependableBytes(Cur))
       => (/\ phase' = "run"
           /\ WritableBytes(Cur') >= last'.len
           /\ SubSeq(Peek(Cur'), 1, ReadableBytes(Cur)) = Peek(Cur))]_vars

(* C5 amended: from a state with 0 <= readPos_ <= writePos_ <=              *)
(* buffer_.size(), appending L > WritableBytes() + PrependableBytes() bytes *)
(* grows buffer_ to the old writePos_ + L + 1 bytes, so that the L bytes    *)
(* fit behind the old writePos_ and WritableBytes() == 1 after the call;    *)
(* the prior readable content stays the prefix of the readable region,      *)
(* followed by the L bytes.                                                 *)
C5_GrowthFitsAppend ==
    [][(/\ last'.op = "Append"
        /\ InBounds(Cur)
        /\ last'.len > WritableBytes(Cur) + PrependableBytes(Cur))
       => (/\ phase' = "run"
           /\ Len(buffer_') = writePos_ + last'.len + 1
           /\ Len(buffer_') - writePos_ >= last'.len
           /\ WritableBytes(Cur') = 1
           /\ SubSeq(Peek(Cur'), 1, ReadableBytes(Cur)) = Peek(Cur)
           /\ Peek(Cur') = Peek(Cur) \o last'.data)]_vars

(* An Append has grown a buffer whose readable region was not empty. *)
C5_Witness ==
    /\ last.op = "Append" /\ last.path = "grow" /\ phase = "run"
    /\ last.readable > 0
    /\ last.len > 0

(* C6: RetrieveAllToStr returns the readable region as it was at the call,  *)
(* so right after an Append(X) onto an empty readable region it returns X;  *)
(* afterwards readPos_ == writePos_ == 0, ReadableBytes() == 0,             *)
(* WritableBytes() == buffer_.size(), buffer_.size() is unchanged and every *)
(* byte of buffer_ is zero.                                                 *)
C6_RoundTrip ==
    [][(last'.op = "RetrieveAllToStr" /\ phase' = "run")
       => (/\ last'.str = Peek(Cur)
           /\ FreshAppend # <<>> => last'.str = FreshAppend[1]
           /\ readPos_' = 0
           /\ writePos_' = 0
           /\ ReadableBytes(Cur') = 0
           /\ WritableBytes(Cur') = Len(buffer_')
           /\ Len(buffer_') = Len(buffer_)
           /\ \A i \in 1..Len(buffer_') : buffer_'[i] = 0)]_vars

(* RetrieveAllToStr has returned, right after an Append of bytes that are   *)
(* not all zero onto an empty readable region.                              *)
C6_Witness ==
    /\ last.op = "RetrieveAllToStr" /\ phase = "run"
    /\ last.prior # <<>>
    /\ last.prior = <<last.str>>
    /\ \E i \in 1..Len(last.str) : last.str[i] # 0

(* C7: HasWritten(len) with len > WritableBytes() fails fast: no call to    *)
(* HasWritten leaves the buffer with writePos_ > buffer_.size().            *)
C7_HasWrittenChecked ==
    last.op = "HasWritten" => writePos_ <= Len(buffer_)

(* C8: a successful ReadFd in which readv delivers W + N bytes, W =         *)
(* WritableBytes() before the call and 0 < N <= 65535: ReadableBytes()      *)
(* grows by W + N, the prior readable content stays the prefix, the first W *)
(* delivered bytes follow it, the last N readable bytes are the overflow    *)
(* bytes readv stored in buff, and ReadFd returns W + N.                    *)
C8_ScatterRead ==
    [][(/\ last'.op = "ReadFd"
        /\ InBounds(Cur)
        /\ last'.ret > WritableBytes(Cur))
       => LET W == WritableBytes(Cur)
              N == last'.ret - W
              R == ReadableBytes(Cur)
              d == last'.data
          IN  /\ phase' = "run"
              /\ N <= ScratchSize
              /\ last'.ret = Len(d)
              /\ ReadableBytes(Cur') = R + W + N
              /\ SubSeq(Peek(Cur'), 1, R) = Peek(Cur)
              /\ SubSeq(Peek(Cur'), R + 1, R + W) = SubSeq(d, 1, W)
              /\ SubSeq(Peek(Cur'), R + W + 1, R + W + N) = SubSeq(d, W + 1, W + N)]_vars

(* A ReadFd has filled a writable region that was not empty, overflowed,    *)
(* and compacted the buffer to place the overflow behind earlier content.   *)
C8_Witness ==
    /\ last.op = "ReadFd" /\ phase = "run"
    /\ last.writable > 0
    /\ last.ret > last.writable
    /\ last.readable > 0
    /\ last.path = "compact"

(* C9: when the system call fails, ReadFd and WriteFd return its negative   *)
(* result, store errno in *saveErrno, and leave readPos_, writePos_,        *)
(* buffer_.size() and the stored bytes as they were.                        *)
C9_FailureLeavesBuffer ==
    [][(last'.op \in {"ReadFd", "WriteFd"} /\ last'.errno # 0)
       => (/\ phase' = "run"
           /\ last'.ret < 0
           /\ last'.ret = -1
           /\ last'.err = last'.errno
           /\ readPos_' = readPos_
           /\ writePos_' = writePos_
           /\ buffer_' = buffer_)]_vars

(* A WriteFd has failed on a buffer that holds readable bytes behind        *)
(* consumed ones.                                                           *)
C9_Witness ==
    /\ last.op = "WriteFd" /\ last.ret < 0
    /\ last.err \in Errnos /\ last.err # last.errIn
    /\ readPos_ > 0
    /\ ReadableBytes(Cur) > 0

(* C10: when write accepts n bytes, 0 <= n < ReadableBytes(), afterwards    *)
(* ReadableBytes() is the original value minus n, readPos_ has advanced by  *)
(* n so that Peek() designates the unwritten rest, and writePos_,           *)
(* buffer_.size() and the stored bytes are unchanged.                       *)
C10_PartialWrite ==
    [][(/\ last'.op = "WriteFd"
        /\ last'.errno = 0
        /\ InBounds(Cur)
        /\ last'.ret < ReadableBytes(Cur))
       => LET n == last'.ret
          IN  /\ phase' = "run"
              /\ n >= 0
              /\ last'.data = SubSeq(Peek(Cur), 1, n)
              /\ ReadableBytes(Cur') = ReadableBytes(Cur) - n
              /\ readPos_' = readPos_ + n
              /\ Peek(Cur') = SubSeq(Peek(Cur), n + 1, ReadableBytes(Cur))
              /\ writePos_' = writePos_
              /\ buffer_' = buffer_]_vars

(* A WriteFd has written some, not all, of the readable bytes. *)
C10_Witness ==
    /\ last.op = "WriteFd" /\ phase = "run"
    /\ last.ret > 0
    /\ last.ret < last.readable
    /\ ReadableBytes(Cur) = last.readable - last.ret

(* C11: no step of a public operation makes buffer_.size() smaller, and    *)
(* RetrieveAll (alone or inside RetrieveAllToStr) empties the readable      *)
(* region while leaving buffer_.size() as it was.                           *)
C11_CapacityNeverShrinks ==
    [][/\ Len(buffer_') >= Len(buffer_)
       /\ (last'.op \in {"RetrieveAll", "RetrieveAllToStr"} /\ phase' = "run")
             => (/\ Len(buffer_') = Len(buffer_)
                 /\ ReadableBytes(Cur') = 0
                 /\ readPos_' = 0
                 /\ writePos_' = 0)]_vars

(* RetrieveAll has emptied a buffer that had grown and held readable bytes. *)
C11_Witness ==
    /\ last.op = "RetrieveAll" /\ phase = "run"
    /\ Len(buffer_) > MaxInit
    /\ last.readable > 0

(* C12: Retrieve(len) with len > ReadableBytes() aborts on its assert and   *)
(* changes nothing (it is not clamped); with len <= ReadableBytes() it      *)
(* advances readPos_ by len and leaves writePos_, buffer_.size() and every  *)
(* stored byte unchanged.                                                   *)
C12_RetrieveChecked ==
    [][last'.op = "Retrieve"
       => IF last'.len > ReadableBytes(Cur)
          THEN /\ phase' = "aborted"
               /\ readPos_' = readPos_
               /\ writePos_' = writePos_
               /\ buffer_' = buffer_
          ELSE /\ phase' = "run"
               /\ readPos_' = readPos_ + last'.len
               /\ writePos_' = writePos_
               /\ buffer_' = buffer_]_vars

(* A Retrieve of more than the readable bytes, some being readable, has     *)
(* aborted.                                                                 *)
C12_Witness ==
    /\ last.op = "Retrieve" /\ phase = "aborted"
    /\ last.readable > 0
    /\ last.len > last.readable

(* C13: RetrieveUntil(end), end = BeginPtr_() + e: with Peek() <= end <=    *)
(* Peek() + ReadableBytes() it advances readPos_ by end - Peek(), so that   *)
(* Peek() == end afterwards; with end before Peek() or past Peek() +        *)
(* ReadableBytes() it aborts on an assert and changes no cursor.            *)
C13_RetrieveUntilChecked ==
    [][last'.op = "RetrieveUntil"
       => LET e == last'.len
          IN  IF readPos_ <= e /\ e <= readPos_ + ReadableBytes(Cur)
              THEN /\ phase' = "run"
                   /\ readPos_' = readPos_ + (e - readPos_)
                   /\ readPos_' = e
                   /\ writePos_' = writePos_
                   /\ buffer_' = buffer_
              ELSE /\ phase' = "aborted"
                   /\ readPos_' = readPos_
                   /\ writePos_' = writePos_
                   /\ buffer_' = buffer_]_vars

(* A RetrieveUntil has consumed some, not all, of the readable bytes. *)
C13_Witness ==
    /\ last.op = "RetrieveUntil" /\ phase = "run"
    /\ readPos_ = last.len
    /\ ReadableBytes(Cur) > 0
    /\ ReadableBytes(Cur) < last.readable

(* C14: every ReadFd makes exactly one readv call and every WriteFd exactly *)
(* one write call, whatever it returns: the value returned and the bytes    *)
(* transferred are those of that one call (last.len and last.errno are what *)
(* the one call gave).                                                      *)
C14_OneSystemCall ==
    (last.op \in {"ReadFd", "WriteFd"} /\ phase # "undefined")
       => /\ last.calls = 1
          /\ last.ret = IF last.errno # 0 THEN -1 ELSE last.len
          /\ last.op = "WriteFd"
                => ReadableBytes(Cur) = last.readable - last.len
          /\ last.op = "ReadFd"
                => ReadableBytes(Cur) = last.readable + last.len

(* A WriteFd whose write was interrupted (EINTR) has returned without       *)
(* calling write again, readable bytes still pending.                       *)
C14_Witness ==
    /\ last.op = "WriteFd" /\ phase = "run"
    /\ last.errno = 4
    /\ last.calls = 1
    /\ last.readable > 0

(* C15: EnsureWriteable(len), called with 0 <= readPos_ <= writePos_ <=     *)
(* buffer_.size(), ends with WritableBytes() >= len and the readable bytes  *)
(* unchanged, in order; and no call that reaches EnsureWriteable from such  *)
(* a state (EnsureWriteable, Append, ReadFd) fails the assert at the end of *)
(* EnsureWriteable or the assert of MakeSpace_'s compaction.                *)
C15_EnsureWriteableMakesRoom ==
    [][/\ (last'.op = "EnsureWriteable" /\ InBounds(Cur))
             => /\ phase' = "run"
                /\ WritableBytes(Cur') >= last'.len
                /\ InBounds(Cur')
                /\ Peek(Cur') = Peek(Cur)
       /\ (last'.op \in {"EnsureWriteable", "Append", "ReadFd"} /\ InBounds(Cur))
             => phase' # "aborted"]_vars

(* EnsureWriteable has compacted a buffer with readable bytes to make the   *)
(* room asked for.                                                          *)
C15_Witness ==
    /\ last.op = "EnsureWriteable" /\ phase = "run"
    /\ last.path = "compact"
    /\ last.readable > 0
    /\ last.writable < last.len
    /\ WritableBytes(Cur) >= last.len

(* C16: when MakeSpace_(len) runs with WritableBytes() + PrependableBytes() *)
(* < len, buffer_.size() becomes writePos_ + len + 1, strictly larger than  *)
(* before, readPos_ and writePos_ are unchanged and every byte below the    *)
(* old buffer_.size() keeps its value at its offset: the prependable space  *)
(* is not reclaimed.  Seen through EnsureWriteable, which runs MakeSpace_    *)
(* when WritableBytes() < len, and through Append, which then writes only   *)
(* at and after the old writePos_.                                          *)
C16_GrowthFrame ==
    [][/\ (/\ last'.op \in {"EnsureWriteable", "Append"}
           /\ WritableBytes(Cur) < last'.len
           /\ WritableBytes(Cur) + PrependableBytes(Cur) < last'.len)
             => /\ phase' = "run"
                /\ last'.path = "grow"
                /\ Len(buffer_') = writePos_ + last'.len + 1
                /\ Len(buffer_') > Len(buffer_)
                /\ readPos_' = readPos_
                /\ SubSeq(buffer_', 1, writePos_) = SubSeq(buffer_, 1, writePos_)
                /\ last'.op = "EnsureWriteable"
                      => /\ writePos_' = writePos_
                         /\ SubSeq(buffer_', 1, Len(buffer_)) = buffer_
       /\ last'.path = "grow"
             => WritableBytes(Cur) + PrependableBytes(Cur) < last'.len]_vars

(* EnsureWriteable has grown a buffer that had prependable space and        *)
(* readable bytes that are not all 0; the prependable space is still there. *)
C16_Witness ==
    /\ last.op = "EnsureWriteable" /\ phase = "run"
    /\ last.path = "grow"
    /\ readPos_ > 0
    /\ last.readable > 0
    /\ Peek(Cur) # Zeros(last.readable)
    /\ Len(buffer_) = writePos_ + last.len + 1

(* C17: a successful ReadFd that delivers len bytes, 0 <= len <=            *)
(* WritableBytes() at the call, changes only writePos_, by exactly len:     *)
(* readPos_ and buffer_.size() are unchanged, MakeSpace_ does not run, the  *)
(* prior readable bytes stay where they are, followed by the len delivered  *)
(* bytes, and no byte outside the len filled ones changes.                  *)
C17_ReadInPlace ==
    [][(/\ last'.op = "ReadFd" /\ InBounds(Cur)
        /\ last'.errno = 0
        /\ last'.len <= WritableBytes(Cur))
          => /\ phase' = "run"
             /\ last'.ret = last'.len
             /\ writePos_' = writePos_ + last'.len
             /\ readPos_' = readPos_
             /\ Len(buffer_') = Len(buffer_)
             /\ last'.path = "none"
             /\ SubSeq(buffer_', 1, writePos_) = SubSeq(buffer_, 1, writePos_)
             /\ SubSeq(buffer_', writePos_ + 1, writePos_') = last'.data
             /\ SubSeq(buffer_', writePos_' + 1, Len(buffer_))
                   = SubSeq(buffer_, writePos_' + 1, Len(buffer_))
             /\ Peek(Cur') = Peek(Cur) \o last'.data]_vars

(* ReadFd has read fewer bytes than were writable into a buffer that had    *)
(* readable bytes.                                                          *)
C17_Witness ==
    /\ last.op = "ReadFd" /\ phase = "run"
    /\ last.errno = 0
    /\ last.len > 0
    /\ last.len < last.writable
    /\ last.readable > 0
    /\ ReadableBytes(Cur) = last.readable + last.len

(* C18: Append(const Buffer& buff) with buff the destination itself, with   *)
(* readable content C, readPos_ = k > 0 and WritableBytes() < |C| <=        *)
(* WritableBytes() + PrependableBytes() (so that the append compacts), ends *)
(* with readable content C followed by C.                                   *)
C18_SelfAppendDoubles ==
    [][(/\ last'.op = "AppendSelf"
        /\ readPos_ > 0
        /\ WritableBytes(Cur) < ReadableBytes(Cur)
        /\ ReadableBytes(Cur) <= WritableBytes(Cur) + PrependableBytes(Cur))
          => /\ phase' = "run"
             /\ Peek(Cur') = Peek(Cur) \o Peek(Cur)]_vars

(* C19: with Append, Retrieve and RetrieveAll calls only, each Append of at *)
(* most L = MaxLen bytes and made with ReadableBytes() <= R = MaxPending,   *)
(* no call takes buffer_.size() above max(its size before, R + 2 * L), so   *)
(* that it never exceeds max(c0, R + 2 * L); an Append grows buffer_ only   *)
(* when buffer_.size() < ReadableBytes() + len, and an Append short of      *)
(* writable room otherwise compacts, buffer_.size() unchanged.              *)
C19_BoundedCapacity ==
    [][/\ Len(buffer_') <= Max(Len(buffer_), MaxPending + 2 * MaxLen)
       /\ phase' = "run"
       /\ Len(buffer_') # Len(buffer_)
             => /\ last'.op = "Append"
                /\ last'.path = "grow"
                /\ Len(buffer_) < ReadableBytes(Cur) + last'.len
       /\ (/\ last'.op = "Append"
           /\ WritableBytes(Cur) < last'.len
           /\ Len(buffer_) >= ReadableBytes(Cur) + last'.len)
             => /\ last'.path = "compact"
                /\ Len(buffer_') = Len(buffer_)
                /\ readPos_' = 0
                /\ PrependableBytes(Cur) > 0]_vars

(* An Append of L bytes onto R readable bytes has grown buffer_ to exactly  *)
(* R + 2 * L bytes.                                                         *)
C19_Witness ==
    /\ last.op = "Append" /\ phase = "run"
    /\ last.path = "grow"
    /\ last.readable = MaxPending
    /\ last.len = MaxLen
    /\ Len(buffer_) = MaxPending + 2 * MaxLen

(* C20: while the sender keeps calling WriteFd, adds no data, and every     *)
(* write accepts at least one byte, ReadableBytes() eventually becomes 0    *)
(* (readPos_ == writePos_); the bytes handed to the descriptor so far,      *)
(* followed by the bytes still readable, are always the original readable   *)
(* content, so that at the end exactly that content has been written, in    *)
(* order, no byte twice and none skipped.                                   *)
C20_DrainLiveness ==
    /\ [](BytesOf(hist, "WriteFd") \o Peek(Cur) = BytesOf(hist, "Append"))
    /\ (ReadableBytes(Cur) > 0)
          ~> (/\ ReadableBytes(Cur) = 0
              /\ readPos_ = writePos_
              /\ BytesOf(hist, "WriteFd") = BytesOf(hist, "Append"))

(* The sender has drained three bytes, not all equal, with more than one    *)
(* WriteFd call, the first a partial write.                                 *)
C20_Witness ==
    /\ last.op = "WriteFd" /\ phase = "run"
    /\ ReadableBytes(Cur) = 0
    /\ Len(BytesOf(hist, "Append")) > MaxLen
    /\ BytesOf(hist, "Append") # Zeros(Len(BytesOf(hist, "Append")))
    /\ BytesOf(hist, "WriteFd") = BytesOf(hist, "Append")
    /\ Len(SelectSeq(hist, LAMBDA c : c.op = "WriteFd")) > 1

====
